---- MODULE Spec2Model ----
(***************************************************************************)
(* A model of the crdt_fileset replica: the FileSet state machine          *)
(* (src/src/lib.rs), its path lookup trie IDLookup (src/src/lookup.rs) and *)
(* the snapshot written by save (src/src/serialization.rs).                *)
(*                                                                         *)
(* Strings.  A path component is modelled as a non-empty sequence          *)
(* <<base, s1, ..., sk>>: the text `base` followed by the k suffixes       *)
(* "(site s1)" ... "(site sk)".  push_site is filename.push_str(&format!   *)
(* ("(site {})", site_id)).  A path is a sequence of components.           *)
(*                                                                         *)
(* Option::None is the empty tuple; a FileID is the pair <<site_id, id>>.  *)
(***************************************************************************)
EXTENDS Integers, Sequences, FiniteSets, TLC

VARIABLES
  fs,       \* fs[s]: the FileSet of the replica with site_id s
  store,    \* store[s]: the snapshot last written by that replica's save()
  pending,  \* pending[s]: operations not yet handed to that replica's integrate_remote
  pre,      \* the acting replica's FileSet when the last call was entered
  last,     \* the last call: entry point, arguments, the updater's answer, result,
            \* emitted operations, updater calls
  issued,   \* issued[s]: the time_stamps of the State values that replica's create_state returned
  allocated,\* allocated[s]: the FileIDs of the Create operations that replica emitted
  trie,     \* SpecTrie: the IDLookup that is called directly
  ref,      \* SpecTrie: the stored FileIDs by path, as the add / remove rules of the
            \* lookup trie's description keep them
  budget    \* number of calls the run may still make

vars == <<fs, store, pending, pre, last, issued, allocated, trie, ref, budget>>

None == <<>>

\* ------------------------------------------------------------------------
\* Bounds of the model
\* ------------------------------------------------------------------------
MaxSteps == 3        \* calls made on the replica of Spec
MaxStamp == 1        \* largest time_stamp carried by a remote operation
MaxPairSteps == 4    \* local events of the two replicas of SpecPair
MaxOps == 2          \* operations in the set both replicas of SpecConv integrate
MaxSeq == 3          \* Creates in the sequence both replicas of SpecSeq integrate
MaxListed == 2       \* files in a manifest handed to integrate_remote_file_list
MaxScan == 1         \* regular files a walk of the base path meets
MaxSyncSteps == 2    \* calls made on the replica of SpecSync
MaxTrieSteps == 4    \* calls made on the IDLookup of SpecTrie

\* ------------------------------------------------------------------------
\* Input sets
\* ------------------------------------------------------------------------
Sites == {1, 2, 3}
LocalSites == {1, 2}     \* site_id values FileSet::new is given in Spec

NameA == <<"a">>
NameD == <<"d">>

Paths == {<<NameA>>, <<NameD>>, <<NameD, NameA>>}

FileIDs == {<<site, 0>> : site \in Sites}
Keys == {"k", "m"}
Values == {"v", "w"}

\* ------------------------------------------------------------------------
\* IDLookup (src/src/lookup.rs).  The trie is a function from the paths of
\* its existing nodes to Option<FileID>; the head is the node <<>>.
\* ------------------------------------------------------------------------
IDLookup_new == (<<>> :> None)

IsPrefix(p, q) == Len(p) <= Len(q) /\ SubSeq(q, 1, Len(p)) = p

\* node.children of the node at path `node`
children(t, node) == {q \in DOMAIN t : Len(q) = Len(node) + 1 /\ IsPrefix(node, q)}

\* node.children.entry(component).or_insert_with(LookupNode::new)
or_insert(t, child) == IF child \in DOMAIN t THEN t ELSE t @@ (child :> None)

\* node.children.remove(component): the child and everything it owns
remove_child(t, child) == [q \in {x \in DOMAIN t : ~IsPrefix(child, x)} |-> t[q]]

\* filename.push_str(&format!("(site {})", site_id))
push_site(filename, site_id) == Append(filename, site_id)

RECURSIVE add_file_component(_, _, _, _, _)
RECURSIVE add_file_retry(_, _, _, _, _, _, _)

\* the `while try_again` loop of add_file_component (lookup.rs 33-38)
add_file_retry(try_again, result, filename, id, node, t, site_id) ==
  IF try_again
  THEN LET fn == push_site(filename, site_id)
           sibling == Append(node, fn)
           r == add_file_component(<<fn>>, id, sibling, or_insert(t, sibling), site_id)
       IN add_file_retry(r.try_again, r.result, fn, id, node, r.trie, site_id)
  ELSE [result |-> result, filename |-> filename, trie |-> t]

add_file_component(path, id, node, t, site_id) ==
  IF path # <<>>
  THEN LET component == Head(path)
           child == Append(node, component)
           r == add_file_component(Tail(path), id, child, or_insert(t, child), site_id)
           w == add_file_retry(r.try_again, r.result, component, id, node, r.trie, site_id)
       IN [try_again |-> FALSE,
           result |-> IF w.result # None THEN w.result ELSE w.filename,
           trie |-> w.trie]
  ELSE IF t[node] = None
       THEN [try_again |-> FALSE, result |-> None, trie |-> [t EXCEPT ![node] = id]]
       ELSE [try_again |-> TRUE, result |-> None, trie |-> t]

\* add_file returns result.1.unwrap(): [name |-> printed name, trie |-> new trie]
add_file(t, path, id, site_id) ==
  LET r == add_file_component(path, id, <<>>, t, site_id)
  IN [name |-> r.result, trie |-> r.trie]

get_id_for(t, path) == IF path \in DOMAIN t THEN t[path] ELSE None

RECURSIVE remove_file_component(_, _, _)
remove_file_component(path, node, t) ==
  IF path # <<>>
  THEN LET child == Append(node, Head(path))
       IN IF child \in DOMAIN t
          THEN LET r == remove_file_component(Tail(path), child, t)
                   t2 == IF r.should_remove THEN remove_child(r.trie, child) ELSE r.trie
               IN [should_remove |-> children(t2, node) = {}, result |-> r.result, trie |-> t2]
          ELSE [should_remove |-> FALSE, result |-> None, trie |-> t]
  ELSE IF t[node] = None
       THEN [should_remove |-> FALSE, result |-> None, trie |-> t]
       ELSE [should_remove |-> children(t, node) = {},
             result |-> t[node],
             trie |-> [t EXCEPT ![node] = None]]

\* a faulty variant of remove_file: a path that stores no FileID still has
\* the node of its first component removed
remove_file_pruning(t, path) ==
  LET r == remove_file_component(path, <<>>, t)
  IN [id |-> r.result,
      trie |-> IF r.result = None /\ path # <<>>
               THEN remove_child(r.trie, <<Head(path)>>) ELSE r.trie]

remove_file(t, path) ==
  LET r == remove_file_component(path, <<>>, t)
  IN [id |-> r.result, trie |-> r.trie]

\* collect_ids visits the node and then its children in HashMap order: the
\* nodes at or under `node` that store a FileID
collect_ids(t, node) == {q \in DOMAIN t : IsPrefix(node, q) /\ t[q] # None}

RECURSIVE remove_folder_component(_, _, _)
remove_folder_component(path, node, t) ==
  IF path # <<>>
  THEN LET child == Append(node, Head(path))
       IN IF child \in DOMAIN t
          THEN LET r == remove_folder_component(Tail(path), child, t)
                   t2 == IF r.should_remove THEN remove_child(r.trie, child) ELSE r.trie
               IN [should_remove |-> children(t2, node) = {}, nodes |-> r.nodes, trie |-> t2]
          ELSE [should_remove |-> FALSE, nodes |-> {}, trie |-> t]
  ELSE [should_remove |-> TRUE, nodes |-> collect_ids(t, node), trie |-> t]

\* remove_folder: the nodes whose FileIDs are returned, and the new trie
remove_folder(t, path) ==
  LET r == remove_folder_component(path, <<>>, t)
  IN [nodes |-> r.nodes, trie |-> r.trie]

\* ------------------------------------------------------------------------
\* FileSet (src/src/lib.rs)
\* ------------------------------------------------------------------------
EmptyMap == <<>>
Put(f, k, v) == [x \in DOMAIN f \cup {k} |-> IF x = k THEN v ELSE f[x]]
Del(f, k) == [x \in DOMAIN f \ {k} |-> f[x]]

\* FileSet::new when no snapshot exists.  filename_author is a history
\* field: the site_id of the State whose time_stamp is stored in
\* files[id].filename (the code stores the time_stamp only).
FileSet_new(site_id) ==
  [files |-> EmptyMap, id_lookup |-> IDLookup_new, last_timestamp |-> 0, last_id |-> 0,
   site_id |-> site_id, filename_author |-> EmptyMap]

FileMetadata(time_stamp, filename, printed, attributes) ==
  [filename |-> <<time_stamp, filename>>, printed_filename |-> printed, attributes |-> attributes]

get_local_filename(md) ==
  Append(SubSeq(md.filename[2], 1, Len(md.filename[2]) - 1), md.printed_filename)

\* operations (FileSetOperation); unused fields hold None / ""
CreateOp(state, id, filename) ==
  [type |-> "Create", state |-> state, id |-> id, filename |-> filename, key |-> "", value |-> ""]
RemoveOp(id) ==
  [type |-> "Remove", state |-> None, id |-> id, filename |-> None, key |-> "", value |-> ""]
UpdateOp(id) ==
  [type |-> "Update", state |-> None, id |-> id, filename |-> None, key |-> "", value |-> ""]
FilenameOp(state, id, filename) ==
  [type |-> "Filename", state |-> state, id |-> id, filename |-> filename, key |-> "", value |-> ""]
CustomOp(state, id, key, value) ==
  [type |-> "Custom", state |-> state, id |-> id, filename |-> None, key |-> key, value |-> value]

Ok == [tag |-> "Ok", id |-> None]
IOError == [tag |-> "IOError", id |-> None]
IDNotFound(id) == [tag |-> "IDNotFound", id |-> id]
\* a faulty variant of io_result: the updater's error is swallowed
io_result_swallowed(io_ok) == Ok

io_result(io_ok) == IF io_ok THEN Ok ELSE IOError

\* the outcome of a call: the new FileSet, the value returned, the
\* operations emitted, the updater calls made (in order)
Outcome(r, result, emitted, calls) ==
  [fs |-> r, result |-> result, emitted |-> emitted, calls |-> calls]

\* a faulty variant of create_state: the clock is read but not advanced
create_state_stuck(r) ==
  [state |-> <<r.last_timestamp, r.site_id>>, fs |-> r]

create_state(r) ==
  [state |-> <<r.last_timestamp, r.site_id>>,
   fs |-> [r EXCEPT !.last_timestamp = @ + 1]]

\* a faulty variant of get_next_id: the counter is read but not advanced
get_next_id_stuck(r) ==
  [id |-> r.last_id, fs |-> r]

get_next_id(r) ==
  [id |-> r.last_id, fs |-> [r EXCEPT !.last_id = @ + 1]]

\* ---- the snapshot (src/src/serialization.rs) ----
\* A snapshot is the sequence of the values written: a u32 is a number, a
\* length-prefixed string is one token (a path component, a key, a value).
\* Every number a run of the model writes is far below 2^32.
write_u32(n) == <<n>>

\* the entries of one attribute map, in the order `keys` (HashMap order)
RECURSIVE write_attributes(_, _)
write_attributes(attributes, keys) ==
  IF keys = <<>> THEN <<>>
  ELSE <<Head(keys)>> \o write_u32(attributes[Head(keys)][1]) \o <<attributes[Head(keys)][2]>>
       \o write_attributes(attributes, Tail(keys))

\* the entries of the files, in the order `ids` (HashMap order); key_order[f]
\* is the order of the attributes of file f
RECURSIVE write_files(_, _, _)
write_files(files, ids, key_order) ==
  IF ids = <<>> THEN <<>>
  ELSE LET f == Head(ids)
           file == files[f]
       IN write_u32(f[1]) \o write_u32(f[2]) \o write_u32(file.filename[1])
          \o write_u32(Len(file.filename[2])) \o file.filename[2]
          \o <<file.printed_filename>>
          \o write_u32(Cardinality(DOMAIN file.attributes))
          \o write_attributes(file.attributes, key_order[f])
          \o write_files(files, Tail(ids), key_order)

compress_to(r, ids, key_order) ==
  write_u32(r.last_timestamp) \o write_u32(r.last_id) \o write_u32(r.site_id)
  \o write_u32(Cardinality(DOMAIN r.files)) \o write_files(r.files, ids, key_order)

\* readers: each returns what it read and the position after it
RECURSIVE read_components(_, _, _, _)
read_components(bytes, pos, count, filename) ==
  IF count = 0 THEN [filename |-> filename, pos |-> pos]
  ELSE read_components(bytes, pos + 1, count - 1, Append(filename, bytes[pos]))

RECURSIVE read_attributes(_, _, _, _)
read_attributes(bytes, pos, count, attributes) ==
  IF count = 0 THEN [attributes |-> attributes, pos |-> pos]
  ELSE read_attributes(bytes, pos + 3, count - 1,
                       Put(attributes, bytes[pos], <<bytes[pos + 1], bytes[pos + 2]>>))

RECURSIVE read_files(_, _, _, _, _)
read_files(bytes, pos, count, files, id_lookup) ==
  IF count = 0 THEN [files |-> files, id_lookup |-> id_lookup]
  ELSE LET id == <<bytes[pos], bytes[pos + 1]>>
           fn == read_components(bytes, pos + 4, bytes[pos + 3], <<>>)
           at == read_attributes(bytes, fn.pos + 2, bytes[fn.pos + 1], EmptyMap)
           metadata == FileMetadata(bytes[pos + 2], fn.filename, bytes[fn.pos], at.attributes)
           added == add_file(id_lookup, get_local_filename(metadata), id, id[1])
       IN read_files(bytes, at.pos, count - 1, Put(files, id, metadata), added.trie)

\* expand_from; the history field filename_author is not in a snapshot
expand_from(bytes) ==
  LET read == read_files(bytes, 5, bytes[4], EmptyMap, IDLookup_new)
  IN [files |-> read.files, id_lookup |-> read.id_lookup,
      last_timestamp |-> bytes[1], last_id |-> bytes[2], site_id |-> bytes[3],
      filename_author |-> EmptyMap]

\* a faulty variant of save: the snapshot does not keep the id counter
save_forgets_last_id(r) ==
  [last_timestamp |-> r.last_timestamp, last_id |-> 0, site_id |-> r.site_id,
   files |-> r.files]

\* save(): the file holds compress_to of these fields, its entries in the
\* order in which the HashMaps iterate; the order is drawn when the file is read
save(r) ==
  [last_timestamp |-> r.last_timestamp, last_id |-> r.last_id, site_id |-> r.site_id,
   files |-> r.files]

\* updater calls
create_file_call(path) == <<"create_file", path, None>>
remove_file_call(path) == <<"remove_file", path, None>>
update_file_call(path) == <<"update_file", path, None>>
move_file_call(old, new) == <<"move_file", old, new>>

\* ---- remote integration (lib.rs 323-401) ----
\* a faulty variant of integrate_create: the trie add is made with the local
\* site_id as author
integrate_create_local_author(r, o, io_ok) ==
  LET a == add_file(r.id_lookup, o.filename, o.id, r.site_id)
      metadata == FileMetadata(o.state[1], o.filename, a.name, EmptyMap)
      path == get_local_filename(metadata)
  IN Outcome([r EXCEPT !.id_lookup = a.trie,
                       !.files = Put(@, o.id, metadata),
                       !.filename_author = Put(@, o.id, o.state[2])],
             io_result(io_ok), <<>>, <<create_file_call(path)>>)

integrate_create(r, o, io_ok) ==
  LET a == add_file(r.id_lookup, o.filename, o.id, o.id[1])
      metadata == FileMetadata(o.state[1], o.filename, a.name, EmptyMap)
      path == get_local_filename(metadata)
  IN Outcome([r EXCEPT !.id_lookup = a.trie,
                       !.files = Put(@, o.id, metadata),
                       !.filename_author = Put(@, o.id, o.state[2])],
             io_result(io_ok), <<>>, <<create_file_call(path)>>)

\* a faulty variant of integrate_remove: a Remove of an unknown FileID is
\* ignored without an error
integrate_remove_silent(r, o, io_ok) ==
  IF o.id \notin DOMAIN r.files
  THEN Outcome(r, Ok, <<>>, <<>>)
  ELSE LET filename == get_local_filename(r.files[o.id])
       IN Outcome([r EXCEPT !.files = Del(@, o.id),
                            !.filename_author = Del(@, o.id),
                            !.id_lookup = remove_file(@, filename).trie],
                  io_result(io_ok), <<>>, <<remove_file_call(filename)>>)

integrate_remove(r, o, io_ok) ==
  IF o.id \notin DOMAIN r.files
  THEN Outcome(r, IDNotFound(o.id), <<>>, <<>>)
  ELSE LET filename == get_local_filename(r.files[o.id])
       IN Outcome([r EXCEPT !.files = Del(@, o.id),
                            !.filename_author = Del(@, o.id),
                            !.id_lookup = remove_file(@, filename).trie],
                  io_result(io_ok), <<>>, <<remove_file_call(filename)>>)

integrate_update(r, o, io_ok) ==
  IF o.id \notin DOMAIN r.files
  THEN Outcome(r, IDNotFound(o.id), <<>>, <<>>)
  ELSE Outcome(r, io_result(io_ok), <<>>,
               <<update_file_call(get_local_filename(r.files[o.id]))>>)

\* a faulty variant of the test below: every operation whose timestamp
\* equals the stored one is dropped, whatever the site_ids
lww_drops_every_tie(stored_time_stamp, site_id, state) ==
  stored_time_stamp >= state[1]

\* the test that drops an UpdateMetadata (lib.rs 364 and 385)
lww_drops(stored_time_stamp, site_id, state) ==
  \/ stored_time_stamp > state[1]
  \/ stored_time_stamp = state[1] /\ site_id > state[2]

integrate_update_filename(r, o, io_ok) ==
  IF o.id \notin DOMAIN r.files
  THEN Outcome(r, IDNotFound(o.id), <<>>, <<>>)
  ELSE LET metadata == r.files[o.id]
       IN IF lww_drops(metadata.filename[1], r.site_id, o.state)
          THEN Outcome(r, Ok, <<>>, <<>>)
          ELSE LET old_filename == get_local_filename(metadata)
                   t1 == remove_file(r.id_lookup, old_filename).trie
                   a == add_file(t1, o.filename, o.id, o.state[2])
                   md2 == [metadata EXCEPT !.filename = <<o.state[1], o.filename>>,
                                           !.printed_filename = a.name]
               IN Outcome([r EXCEPT !.id_lookup = a.trie,
                                    !.files = Put(@, o.id, md2),
                                    !.filename_author = Put(@, o.id, o.state[2])],
                          io_result(io_ok), <<>>,
                          <<move_file_call(old_filename, get_local_filename(md2))>>)

integrate_update_custom(r, o) ==
  IF o.id \notin DOMAIN r.files
  THEN Outcome(r, IDNotFound(o.id), <<>>, <<>>)
  ELSE LET attributes == r.files[o.id].attributes
       IN IF o.key \in DOMAIN attributes
             /\ lww_drops(attributes[o.key][1], r.site_id, o.state)
          THEN Outcome(r, Ok, <<>>, <<>>)
          ELSE Outcome([r EXCEPT !.files[o.id].attributes = Put(@, o.key, <<o.state[1], o.value>>)],
                       Ok, <<>>, <<>>)

integrate_update_metadata(r, o, io_ok) ==
  IF o.type = "Filename" THEN integrate_update_filename(r, o, io_ok)
  ELSE integrate_update_custom(r, o)

\* integrate_remote: dispatch; save() follows in the action
\* a faulty variant of integrate_remote: the clock is raised past the
\* time_stamp of the integrated operation
integrate_remote_raising_clock(r, o, io_ok) ==
  LET out == CASE o.type = "Create" -> integrate_create(r, o, io_ok)
               [] o.type = "Remove" -> integrate_remove(r, o, io_ok)
               [] o.type = "Update" -> integrate_update(r, o, io_ok)
               [] OTHER -> integrate_update_metadata(r, o, io_ok)
  IN IF o.state # None /\ o.state[1] >= out.fs.last_timestamp
     THEN [out EXCEPT !.fs.last_timestamp = o.state[1] + 1]
     ELSE out

integrate_remote(r, o, io_ok) ==
  CASE o.type = "Create" -> integrate_create(r, o, io_ok)
    [] o.type = "Remove" -> integrate_remove(r, o, io_ok)
    [] o.type = "Update" -> integrate_update(r, o, io_ok)
    [] OTHER -> integrate_update_metadata(r, o, io_ok)

\* ---- local events (lib.rs 168-238) ----
process_create(r, path) ==
  LET n == get_next_id(r)
      c == create_state(n.fs)
      id == <<r.site_id, n.id>>
      a == add_file(r.id_lookup, path, id, r.site_id)
  IN Outcome([c.fs EXCEPT !.id_lookup = a.trie,
                          !.files = Put(@, id, FileMetadata(c.state[1], path, a.name, EmptyMap)),
                          !.filename_author = Put(@, id, c.state[2])],
             Ok, <<CreateOp(c.state, id, path)>>, <<>>)

\* id_lookup.remove_file(path).unwrap() must succeed
can_process_remove(r, path) == remove_file(r.id_lookup, path).id # None

process_remove(r, path) ==
  LET rm == remove_file(r.id_lookup, path)
      key == <<r.site_id, rm.id[2]>>
  IN Outcome([r EXCEPT !.id_lookup = rm.trie,
                       !.files = Del(@, key),
                       !.filename_author = Del(@, key)],
             Ok, <<RemoveOp(rm.id)>>, <<>>)

DelAll(f, ks) == [x \in DOMAIN f \ ks |-> f[x]]

\* `order` is the order in which collect_ids met the nodes (HashMap order)
process_remove_folder(r, path, order) ==
  LET rm == remove_folder(r.id_lookup, path)
      ids == [i \in 1..Len(order) |-> r.id_lookup[order[i]]]
      gone == {ids[i] : i \in 1..Len(ids)}
  IN Outcome([r EXCEPT !.id_lookup = rm.trie,
                       !.files = DelAll(@, gone),
                       !.filename_author = DelAll(@, gone)],
             Ok, [i \in 1..Len(ids) |-> RemoveOp(ids[i])], <<>>)

can_process_update(r, path) == get_id_for(r.id_lookup, path) # None

process_update(r, path) ==
  Outcome(r, Ok, <<UpdateOp(get_id_for(r.id_lookup, path))>>, <<>>)

\* remove_file(old_path).unwrap() and files.get_mut(&id).unwrap() must succeed
can_process_file_move(r, old_path) ==
  LET rm == remove_file(r.id_lookup, old_path)
  IN rm.id # None /\ rm.id \in DOMAIN r.files

process_file_move(r, old_path, new_path) ==
  LET rm == remove_file(r.id_lookup, old_path)
      c == create_state(r)
      a == add_file(rm.trie, new_path, rm.id, rm.id[1])
  IN Outcome([c.fs EXCEPT !.id_lookup = a.trie,
                          !.files[rm.id].filename = <<c.state[1], new_path>>,
                          !.files[rm.id].printed_filename = a.name,
                          !.filename_author = Put(@, rm.id, c.state[2])],
             Ok, <<FilenameOp(c.state, rm.id, new_path)>>, <<>>)

\* ---- the directory reconciler (lib.rs 262-301, 403-455) ----
\* A FileHistory of the remote manifest: the filename with its time_stamp
\* and the attributes (the operation_history belongs to the updater).
FileHistory(time_stamp, filename, attributes) ==
  [filename |-> <<time_stamp, filename>>, attributes |-> attributes]

\* check_for_file for one regular file found under the base path; has_data
\* is fs::metadata(actual_path).len() > 0.  Every updater call succeeds: a
\* failure ends in the unwrap() of integrate_remote_file_list.
check_for_file(r, relative_path, has_data, remote_files) ==
  LET id == get_id_for(r.id_lookup, relative_path)
  IN IF id # None
     THEN IF id \in DOMAIN remote_files
          THEN Outcome(r, Ok, <<UpdateOp(id)>>, <<update_file_call(relative_path)>>)
          ELSE Outcome(r, Ok, <<>>, <<>>)
     ELSE LET c == process_create(r, relative_path)
          IN Outcome(c.fs, Ok,
                     IF has_data THEN c.emitted \o <<UpdateOp(c.emitted[1].id)>> ELSE c.emitted,
                     <<>>)

\* scan_dir: `entries` are the regular files under the base path in the
\* order read_dir yields them, `nonempty` those with a length above 0
RECURSIVE scan_dir(_, _, _, _)
scan_dir(acc, entries, nonempty, remote_files) ==
  IF entries = <<>>
  THEN acc
  ELSE LET c == check_for_file(acc.fs, Head(entries), Head(entries) \in nonempty, remote_files)
       IN scan_dir(Outcome(c.fs, Ok, acc.emitted \o c.emitted, acc.calls \o c.calls),
                   Tail(entries), nonempty, remote_files)

\* the loop over self.files.drain() (lib.rs 272-281): `order` is the order
\* in which the HashMap yields the tracked files
RECURSIVE drain_files(_, _, _)
drain_files(acc, order, remote_files) ==
  IF order = <<>>
  THEN acc
  ELSE LET id == Head(order)
           filename == get_local_filename(acc.fs.files[id])
       IN IF id \in DOMAIN remote_files
          THEN drain_files(acc, Tail(order), remote_files)
          ELSE drain_files(
                 Outcome([acc.fs EXCEPT !.id_lookup = remove_file(@, filename).trie,
                                        !.files = Del(@, id),
                                        !.filename_author = Del(@, id)],
                         Ok, acc.emitted, Append(acc.calls, remove_file_call(filename))),
                 Tail(order), remote_files)

\* the loop over file_list.into_iter() (lib.rs 284-298): `order` is the
\* order in which the HashMap yields the remote files.  The manifest does not
\* name the author of the filename; the history field takes the site of the
\* FileID, which is the author the trie is given.
RECURSIVE create_listed(_, _, _)
create_listed(acc, order, remote_files) ==
  IF order = <<>>
  THEN acc
  ELSE LET id == Head(order)
           file_history == remote_files[id]
           a == add_file(acc.fs.id_lookup, file_history.filename[2], id, id[1])
           file == FileMetadata(file_history.filename[1], file_history.filename[2], a.name,
                                file_history.attributes)
           actual_filename == get_local_filename(file)
       IN IF id \in DOMAIN acc.fs.files
          THEN create_listed(acc, Tail(order), remote_files)
          ELSE create_listed(
                 Outcome([acc.fs EXCEPT !.id_lookup = a.trie,
                                        !.files = Put(@, id, file),
                                        !.filename_author = Put(@, id, id[1])],
                         Ok, acc.emitted,
                         acc.calls \o <<create_file_call(actual_filename),
                                        update_file_call(actual_filename)>>),
                 Tail(order), remote_files)

\* integrate_remote_file_list: the value returned is the list of operations,
\* carried in `emitted`
integrate_remote_file_list(r, file_list, entries, nonempty, drain_order, list_order) ==
  LET scanned == scan_dir(Outcome(r, Ok, <<>>, <<>>), entries, nonempty, file_list)
      drained == drain_files(scanned, drain_order, file_list)
  IN create_listed(drained, list_order, file_list)

\* ------------------------------------------------------------------------
\* The state machine
\* ------------------------------------------------------------------------
NoOp == [type |-> "", state |-> None, id |-> None, filename |-> None, key |-> "", value |-> ""]

Range(seq) == {seq[i] : i \in 1..Len(seq)}

\* the time_stamps of the State values the emitted operations carry
Stamps(emitted) ==
  {emitted[i].state[1] : i \in {j \in DOMAIN emitted : emitted[j].state # None}}

\* the FileIDs the emitted Create operations carry
Created(emitted) ==
  {emitted[i].id : i \in {j \in DOMAIN emitted : emitted[j].type = "Create"}}

\* one call on replica s: its outcome is installed, save() writes the
\* snapshot, and the emitted operations travel to the other replicas
Call(s, kind, op, path, new_path, io_ok, out) ==
  /\ fs' = [fs EXCEPT ![s] = out.fs]
  /\ store' = [store EXCEPT ![s] = save(out.fs)]
  /\ pre' = fs[s]
  /\ last' = [site |-> s, kind |-> kind, op |-> op, path |-> path, new_path |-> new_path,
              io_ok |-> io_ok, result |-> out.result, emitted |-> out.emitted,
              calls |-> out.calls]
  /\ issued' = [issued EXCEPT ![s] = @ \cup Stamps(out.emitted)]
  /\ allocated' = [allocated EXCEPT ![s] = @ \cup Created(out.emitted)]
  /\ budget' = budget - 1
  /\ UNCHANGED <<trie, ref>>

Send(s, out) ==
  pending' = [q \in DOMAIN pending |->
                IF q = s THEN pending[q] ELSE pending[q] \cup Range(out.emitted)]

\* operations the sites other than s can send
RemoteStates(s) == {<<t, site>> : t \in 0..MaxStamp, site \in Sites \ {s}}
RemoteCreates(s) ==
  {CreateOp(<<t, id[1]>>, id, p) : t \in 0..MaxStamp, id \in {f \in FileIDs : f[1] # s}, p \in Paths}
RemoteOps(s) ==
  RemoteCreates(s)
  \cup {RemoveOp(id) : id \in FileIDs}
  \cup {UpdateOp(id) : id \in FileIDs}
  \cup {FilenameOp(st, id, p) : st \in RemoteStates(s), id \in FileIDs, p \in Paths}
  \cup {CustomOp(st, id, k, v) : st \in RemoteStates(s), id \in FileIDs, k \in Keys, v \in Values}

\* the orders in which collect_ids can meet a set of nodes
Orders(nodes) ==
  {q \in [1..Cardinality(nodes) -> nodes] : \A n \in nodes : \E i \in DOMAIN q : q[i] = n}

ProcessCreate ==
  /\ budget > 0
  /\ \E s \in DOMAIN fs, path \in Paths :
       LET out == process_create(fs[s], path)
       IN Call(s, "process_create", NoOp, path, None, TRUE, out) /\ Send(s, out)

ProcessRemove ==
  /\ budget > 0
  /\ \E s \in DOMAIN fs :
       \E path \in DOMAIN fs[s].id_lookup :
         /\ can_process_remove(fs[s], path)
         /\ LET out == process_remove(fs[s], path)
            IN Call(s, "process_remove", NoOp, path, None, TRUE, out) /\ Send(s, out)

ProcessRemoveFolder ==
  /\ budget > 0
  /\ \E s \in DOMAIN fs :
       \E path \in DOMAIN fs[s].id_lookup \cup Paths :
         \E order \in Orders(remove_folder(fs[s].id_lookup, path).nodes) :
           LET out == process_remove_folder(fs[s], path, order)
           IN Call(s, "process_remove_folder", NoOp, path, None, TRUE, out) /\ Send(s, out)

ProcessUpdate ==
  /\ budget > 0
  /\ \E s \in DOMAIN fs :
       \E path \in DOMAIN fs[s].id_lookup :
         /\ can_process_update(fs[s], path)
         /\ LET out == process_update(fs[s], path)
            IN Call(s, "process_update", NoOp, path, None, TRUE, out) /\ Send(s, out)

ProcessFileMove ==
  /\ budget > 0
  /\ \E s \in DOMAIN fs :
       \E old_path \in DOMAIN fs[s].id_lookup, new_path \in Paths :
         /\ can_process_file_move(fs[s], old_path)
         /\ LET out == process_file_move(fs[s], old_path, new_path)
            IN Call(s, "process_file_move", NoOp, old_path, new_path, TRUE, out) /\ Send(s, out)

\* integrate_remote of an operation sent by a remote site; the updater call,
\* when one is made, succeeds or reports an I/O error
IntegrateRemote ==
  /\ budget > 0
  /\ \E s \in DOMAIN fs :
       \E o \in RemoteOps(s), io_ok \in BOOLEAN :
         LET out == integrate_remote(fs[s], o, io_ok)
         IN /\ io_ok \/ out.calls # <<>>
            /\ Call(s, "integrate_remote", o, None, None, io_ok, out)
            /\ UNCHANGED pending

\* integrate_remote of an operation another replica emitted
Deliver ==
  /\ budget > 0
  /\ \E s \in DOMAIN fs :
       \E o \in pending[s], io_ok \in BOOLEAN :
         LET out == integrate_remote(fs[s], o, io_ok)
         IN /\ io_ok \/ out.calls # <<>>
            /\ Call(s, "integrate_remote", o, None, None, io_ok, out)
            /\ pending' = [pending EXCEPT ![s] = @ \ {o}]

\* the orders in which the attribute HashMap of each file can iterate
KeyOrders(files) ==
  {g \in [DOMAIN files -> UNION {Orders(DOMAIN files[f].attributes) : f \in DOMAIN files}] :
     \A f \in DOMAIN files : g[f] \in Orders(DOMAIN files[f].attributes)}

\* the process restarts: FileSet::new finds the snapshot and expands it
Restart ==
  /\ budget > 0
  /\ \E s \in DOMAIN fs :
       /\ store[s] # None
       /\ \E ids \in Orders(DOMAIN store[s].files), key_order \in KeyOrders(store[s].files) :
            LET r == expand_from(compress_to(store[s], ids, key_order))
            IN /\ fs' = [fs EXCEPT ![s] = [r EXCEPT !.filename_author = fs[s].filename_author]]
               /\ pre' = fs[s]
               /\ last' = [site |-> s, kind |-> "new", op |-> NoOp, path |-> None,
                           new_path |-> None, io_ok |-> TRUE, result |-> Ok,
                           emitted |-> <<>>, calls |-> <<>>]
               /\ budget' = budget - 1
               /\ UNCHANGED <<store, pending, issued, allocated, trie, ref>>

NoCall == [site |-> 0, kind |-> "new", op |-> NoOp, path |-> None, new_path |-> None,
           io_ok |-> TRUE, result |-> Ok, emitted |-> <<>>, calls |-> <<>>]

\* replicas with the given site_ids, as FileSet::new leaves them when no
\* snapshot exists
InitReplicas(sites, calls) ==
  /\ fs = [s \in sites |-> FileSet_new(s)]
  /\ store = [s \in sites |-> None]
  /\ pre = None
  /\ last = NoCall
  /\ issued = [s \in sites |-> {}]
  /\ allocated = [s \in sites |-> {}]
  /\ trie = IDLookup_new
  /\ ref = EmptyMap
  /\ budget = calls

\* ---- Spec: one replica, its local events, and operations from remote sites
Init ==
  /\ \E site \in LocalSites : InitReplicas({site}, MaxSteps)
  /\ pending = [s \in DOMAIN fs |-> {}]

Next ==
  \/ ProcessCreate
  \/ ProcessRemove
  \/ ProcessRemoveFolder
  \/ ProcessUpdate
  \/ ProcessFileMove
  \/ IntegrateRemote
  \/ Restart

Spec == Init /\ [][Next]_vars

\* ---- SpecPair: two replicas, their local events, and the delivery of the
\* operations each emits to the other
PairSites == {1, 2}

InitPair ==
  /\ InitReplicas(PairSites, MaxPairSteps)
  /\ pending = [s \in PairSites |-> {}]

NextPair ==
  \/ ProcessCreate
  \/ ProcessRemove
  \/ ProcessFileMove
  \/ Deliver

SpecPair == InitPair /\ [][NextPair]_vars

\* ---- SpecConv: two replicas in the same state are handed the same set of
\* operations of a third site, and each integrates them in its own order
ConvFileIDs == {<<3, 0>>, <<3, 1>>}
ConvStates == {<<t, 3>> : t \in 0..MaxStamp}
ConvOps ==
  {CreateOp(st, id, p) : st \in ConvStates, id \in ConvFileIDs, p \in Paths}
  \cup {RemoveOp(id) : id \in ConvFileIDs}
  \cup {FilenameOp(st, id, p) : st \in ConvStates, id \in ConvFileIDs, p \in Paths}
  \cup {CustomOp(st, id, k, v) : st \in ConvStates, id \in ConvFileIDs, k \in Keys, v \in Values}

InitConv ==
  /\ InitReplicas(PairSites, 2 * MaxOps)
  /\ \E ops \in [1..MaxOps -> ConvOps] :
       /\ Cardinality(Range(ops)) = MaxOps
       /\ pending = [s \in PairSites |-> Range(ops)]

NextConv == Deliver

SpecConv == InitConv /\ [][NextConv]_vars

\* ---- SpecSeq: two replicas with different site_ids are handed the same
\* sequence of Create operations of other sites and integrate it in order
SeqFileIDs == {<<3, 0>>, <<3, 1>>, <<4, 0>>}
SeqCreates == {CreateOp(<<id[2], id[1]>>, id, p) : id \in SeqFileIDs, p \in Paths}

\* integrate_remote of the next operation of the sequence
DeliverInOrder ==
  /\ budget > 0
  /\ \E s \in DOMAIN fs :
       /\ pending[s] # <<>>
       /\ \E io_ok \in BOOLEAN :
            LET out == integrate_remote(fs[s], Head(pending[s]), io_ok)
            IN /\ Call(s, "integrate_remote", Head(pending[s]), None, None, io_ok, out)
               /\ pending' = [pending EXCEPT ![s] = Tail(@)]

InitSeq ==
  /\ InitReplicas(PairSites, 2 * MaxSeq)
  /\ \E ops \in [1..MaxSeq -> SeqCreates] : pending = [s \in PairSites |-> ops]

NextSeq == DeliverInOrder

SpecSeq == InitSeq /\ [][NextSeq]_vars

\* ---- SpecSync: the replica of Spec, which is also handed the manifests of
\* remote replicas (integrate_remote_file_list)
\* the FileIDs a remote replica can list: those of other sites, and those
\* this replica put into a Create operation
ManifestIDs(s) == {f \in FileIDs : f[1] # s} \cup allocated[s]

RemoteHistories == {FileHistory(MaxStamp, p, EmptyMap) : p \in Paths}

RemoteFileLists(s) ==
  UNION {[ids -> RemoteHistories] :
           ids \in {x \in SUBSET ManifestIDs(s) : Cardinality(x) <= MaxListed}}

\* the regular files a walk of the base path can meet, in read_dir order: no
\* file lies under another file
Scans ==
  {entries \in UNION {[1..n -> Paths] : n \in 0..MaxScan} :
     \A i, j \in DOMAIN entries : i # j => ~IsPrefix(entries[i], entries[j])}

\* one integrate_remote_file_list call on replica s: as Call, and the last
\* call keeps the manifest and the files the walk met
ListCall(s, file_list, entries, out) ==
  /\ fs' = [fs EXCEPT ![s] = out.fs]
  /\ store' = [store EXCEPT ![s] = save(out.fs)]
  /\ pre' = fs[s]
  /\ last' = [site |-> s, kind |-> "integrate_remote_file_list", op |-> NoOp, path |-> None,
              new_path |-> None, io_ok |-> TRUE, result |-> out.result,
              emitted |-> out.emitted, calls |-> out.calls,
              file_list |-> file_list, entries |-> entries]
  /\ issued' = [issued EXCEPT ![s] = @ \cup Stamps(out.emitted)]
  /\ allocated' = [allocated EXCEPT ![s] = @ \cup Created(out.emitted)]
  /\ budget' = budget - 1
  /\ UNCHANGED <<trie, ref>>

IntegrateRemoteFileList ==
  /\ budget > 0
  /\ \E s \in DOMAIN fs :
       \E file_list \in RemoteFileLists(s), entries \in Scans :
         \E nonempty \in SUBSET Range(entries) :
           LET scanned == scan_dir(Outcome(fs[s], Ok, <<>>, <<>>), entries, nonempty, file_list)
           IN \E drain_order \in Orders(DOMAIN scanned.fs.files),
                 list_order \in Orders(DOMAIN file_list) :
                LET out == integrate_remote_file_list(fs[s], file_list, entries, nonempty,
                                                      drain_order, list_order)
                IN ListCall(s, file_list, entries, out) /\ Send(s, out)

InitSync ==
  /\ \E site \in LocalSites : InitReplicas({site}, MaxSyncSteps)
  /\ pending = [s \in DOMAIN fs |-> {}]

NextSync == Next \/ IntegrateRemoteFileList

SpecSync == InitSync /\ [][NextSync]_vars

\* the parent components of a path followed by a terminal name
Sibling(path, name) == Append(SubSeq(path, 1, Len(path) - 1), name)

\* `name` with "(site <site_id>)" appended k times
RECURSIVE Suffixed(_, _, _)
Suffixed(name, site_id, k) ==
  IF k = 0 THEN name ELSE push_site(Suffixed(name, site_id, k - 1), site_id)

\* ---- SpecTrie: an IDLookup called directly with add_file, remove_file and
\* remove_folder
TrieIDs == {<<1, 0>>, <<1, 1>>, <<2, 0>>}
TriePaths == Paths \cup {<<push_site(NameA, 1)>>}

\* The stored FileIDs as the description of the lookup trie keeps them: a
\* function from the paths that store a FileID to that FileID.
\* add: the terminal component is tried as given and then with
\* "(site <author>)" appended once more each time, at the sibling position,
\* until no FileID is stored there
RECURSIVE ref_free(_, _, _, _)
ref_free(m, path, author, k) ==
  IF Sibling(path, Suffixed(path[Len(path)], author, k)) \notin DOMAIN m
  THEN k ELSE ref_free(m, path, author, k + 1)

ref_add(m, path, id, author) ==
  LET name == Suffixed(path[Len(path)], author, ref_free(m, path, author, 0))
  IN [name |-> name, map |-> Put(m, Sibling(path, name), id)]

ref_remove_file(m, path) ==
  [id |-> IF path \in DOMAIN m THEN m[path] ELSE None, map |-> Del(m, path)]

ref_remove_folder(m, path) ==
  [ids |-> {m[q] : q \in {x \in DOMAIN m : IsPrefix(path, x)}},
   map |-> DelAll(m, {x \in DOMAIN m : IsPrefix(path, x)})]

TrieCall(kind, path, id, author, result, ids, t, m) ==
  /\ trie' = t
  /\ ref' = m
  /\ pre' = [trie |-> trie, ref |-> ref]
  /\ last' = [kind |-> kind, path |-> path, id |-> id, author |-> author,
              result |-> result, ids |-> ids]
  /\ budget' = budget - 1
  /\ UNCHANGED <<fs, store, pending, issued, allocated>>

AddFile ==
  /\ budget > 0
  /\ \E path \in TriePaths, id \in TrieIDs :
       LET a == add_file(trie, path, id, id[1])
       IN TrieCall("add_file", path, id, id[1], a.name, {}, a.trie,
                   ref_add(ref, path, id, id[1]).map)

RemoveFile ==
  /\ budget > 0
  /\ \E path \in DOMAIN trie \cup TriePaths :
       LET rm == remove_file(trie, path)
       IN TrieCall("remove_file", path, None, 0, rm.id, {}, rm.trie,
                   ref_remove_file(ref, path).map)

\* `ids` is the list returned, as the set of its FileIDs
RemoveFolder ==
  /\ budget > 0
  /\ \E path \in DOMAIN trie \cup TriePaths :
       LET rm == remove_folder(trie, path)
       IN TrieCall("remove_folder", path, None, 0, None, {trie[q] : q \in rm.nodes}, rm.trie,
                   ref_remove_folder(ref, path).map)

InitTrie ==
  /\ InitReplicas({}, MaxTrieSteps)
  /\ pending = EmptyMap

NextTrie ==
  \/ AddFile
  \/ RemoveFile
  \/ RemoveFolder

SpecTrie == InitTrie /\ [][NextTrie]_vars

\* ------------------------------------------------------------------------
\* Vocabulary of the properties
\* ------------------------------------------------------------------------
\* the FileSet of the replica that made the last call, after the call
post == fs[last.site]

\* the trie nodes (paths) that store FileID f
NodesStoring(t, f) == {q \in DOMAIN t : t[q] = f}

\* the paths the trie resolves, with the FileID each resolves to
Resolved(t) == {<<q, t[q]>> : q \in {x \in DOMAIN t : t[x] # None}}

IntegratedOp(type) == last.kind = "integrate_remote" /\ last.op.type = type

\* ------------------------------------------------------------------------
\* Properties
\* ------------------------------------------------------------------------

\* C3: after any sequence of local events and integrate_remote calls, for
\* every FileID f in files the trie has exactly one node storing f, and it is
\* the parent components of files[f].filename followed by printed_filename.
C3_FilesToTrie ==
  \A s \in DOMAIN fs :
    \A f \in DOMAIN fs[s].files :
      NodesStoring(fs[s].id_lookup, f) = {get_local_filename(fs[s].files[f])}

\* C4: after any sequence of local events and integrate_remote calls, every
\* FileID stored in a trie node is a key of files.
C4_TrieToFiles ==
  \A s \in DOMAIN fs :
    \A q \in DOMAIN fs[s].id_lookup :
      fs[s].id_lookup[q] # None => fs[s].id_lookup[q] \in DOMAIN fs[s].files

\* C5: after any sequence of local events and integrate_remote calls, no two
\* distinct FileIDs of files have the same on-disk path.
C5_DiskPathsUnique ==
  \A s \in DOMAIN fs :
    \A f, g \in DOMAIN fs[s].files :
      f # g => get_local_filename(fs[s].files[f]) # get_local_filename(fs[s].files[g])

\* C10: process_remove(path), for a path resolving to FileID f, removes f from
\* the trie and from files and emits Remove{id: f}, whichever site originated f.
C10_ProcessRemove ==
  last.kind = "process_remove" =>
    LET f == get_id_for(pre.id_lookup, last.path)
    IN /\ f \notin DOMAIN post.files
       /\ get_id_for(post.id_lookup, last.path) = None
       /\ last.emitted = <<RemoveOp(f)>>

\* the least k >= 1 for which the sibling `name(site <site_id>)...` of `path`
\* stores no FileID in trie t
RECURSIVE FreeSuffix(_, _, _, _)
FreeSuffix(t, path, site_id, k) ==
  IF get_id_for(t, Sibling(path, Suffixed(path[Len(path)], site_id, k))) = None
  THEN k ELSE FreeSuffix(t, path, site_id, k + 1)

\* C6: integrate_remote of Create{state, id, filename} whose path already
\* resolves to a different FileID g: afterwards the path still resolves to
\* g, the parent components plus files[id].printed_filename resolve to id,
\* printed_filename is the terminal component with "(site <id.site_id>)"
\* appended (as often as needed to reach a free sibling), and
\* files[id].filename is (state.timestamp, filename as sent).
C6_CollisionRename ==
  LET o == last.op
      g == get_id_for(pre.id_lookup, o.filename)
  IN (IntegratedOp("Create") /\ g # None /\ g # o.id) =>
       /\ get_id_for(post.id_lookup, o.filename) = g
       /\ get_id_for(post.id_lookup, Sibling(o.filename, post.files[o.id].printed_filename)) = o.id
       /\ post.files[o.id].printed_filename =
            Suffixed(o.filename[Len(o.filename)], o.id[1],
                     FreeSuffix(pre.id_lookup, o.filename, o.id[1], 1))
       /\ post.files[o.id].filename = <<o.state[1], o.filename>>

\* the rename of the last integrate_remote call was applied / was dropped
RenameApplied ==
  /\ post.files[last.op.id].filename = <<last.op.state[1], last.op.filename>>
  /\ Len(last.calls) = 1 /\ last.calls[1][1] = "move_file"
RenameDropped == post = pre /\ last.calls = <<>>

\* C7: integrating UpdateMetadata{state:(t,s), id, Filename(new)} for a
\* tracked file whose stored filename timestamp equals t applies the rename
\* iff the site_id of the author of the stored filename is <= s, and drops
\* it (state unchanged) if the stored author's site_id is greater than s.
C7_RenameTieBreak ==
  LET o == last.op
  IN (/\ IntegratedOp("Filename")
      /\ o.id \in DOMAIN pre.files
      /\ pre.files[o.id].filename[1] = o.state[1]) =>
       IF pre.filename_author[o.id] <= o.state[2] THEN RenameApplied ELSE RenameDropped

\* C8: integrating UpdateMetadata{state:(t,s), id, Filename(new)} for a
\* tracked file with stored filename timestamp T.  If T > t: Ok, files and
\* trie unchanged, move_file not called.  If T < t: files[id].filename is
\* (t, new), the old on-disk path no longer resolves to id, the new on-disk
\* path resolves to id, and move_file(old on-disk path, new on-disk path)
\* is called.  (The clause about the old path is read for a rename that
\* changes the on-disk path: for a rename onto the same path it would
\* contradict the clause about the new path.)
C8_RenameByTimestamp ==
  LET o == last.op
      T == pre.files[o.id].filename[1]
      old == get_local_filename(pre.files[o.id])
      new == get_local_filename(post.files[o.id])
  IN (IntegratedOp("Filename") /\ o.id \in DOMAIN pre.files) =>
       /\ T > o.state[1] =>
            /\ last.result = Ok
            /\ post.files = pre.files
            /\ post.id_lookup = pre.id_lookup
            /\ last.calls = <<>>
       /\ T < o.state[1] =>
            /\ post.files[o.id].filename = <<o.state[1], o.filename>>
            /\ old # new => get_id_for(post.id_lookup, old) # o.id
            /\ get_id_for(post.id_lookup, new) = o.id
            /\ last.calls = <<move_file_call(old, new)>>

\* C9: integrating UpdateMetadata{state:(t,s), id, Custom(key,value)} for a
\* tracked file sets attributes[key] to (t,value) if key is absent, or its
\* stored timestamp is less than t, or equals t and the local site_id is
\* <= s; otherwise attributes[key] is unchanged.  In every case the call
\* returns Ok and no other attribute, the filename, the trie and the
\* counters change.
C9_AttributeLWW ==
  LET o == last.op
      old == pre.files[o.id].attributes
      new == post.files[o.id].attributes
      accept == \/ o.key \notin DOMAIN old
                \/ old[o.key][1] < o.state[1]
                \/ old[o.key][1] = o.state[1] /\ pre.site_id <= o.state[2]
  IN (IntegratedOp("Custom") /\ o.id \in DOMAIN pre.files) =>
       /\ last.result = Ok
       /\ DOMAIN new = DOMAIN old \cup {o.key}
       /\ new[o.key] = IF accept THEN <<o.state[1], o.value>> ELSE old[o.key]
       /\ \A k \in DOMAIN old \ {o.key} : new[k] = old[k]
       /\ DOMAIN post.files = DOMAIN pre.files
       /\ \A f \in DOMAIN pre.files \ {o.id} : post.files[f] = pre.files[f]
       /\ post.files[o.id].filename = pre.files[o.id].filename
       /\ post.files[o.id].printed_filename = pre.files[o.id].printed_filename
       /\ post.id_lookup = pre.id_lookup
       /\ post.last_timestamp = pre.last_timestamp
       /\ post.last_id = pre.last_id
       /\ last.calls = <<>> /\ last.emitted = <<>>

\* an attribute written at timestamp t is overwritten by a different value of
\* an operation with the same timestamp, the local site_id being <= s
C9_TieAccepted ==
  LET o == last.op
      old == pre.files[o.id].attributes
  IN /\ IntegratedOp("Custom") /\ o.id \in DOMAIN pre.files
     /\ o.key \in DOMAIN old
     /\ old[o.key][1] = o.state[1] /\ old[o.key][2] # o.value
     /\ pre.site_id <= o.state[2]
     /\ post.files[o.id].attributes[o.key] = <<o.state[1], o.value>>

\* ------------------------------------------------------------------------
\* Properties of two replicas
\* ------------------------------------------------------------------------

\* the mapping from on-disk path to FileID that files describes
DiskMap(r) == {<<get_local_filename(r.files[f]), f>> : f \in DOMAIN r.files}

\* C1: two replicas that start from identical state and integrate the same
\* finite set of operations, each in its own order, end with equal files and
\* with tries that resolve the same paths to the same FileIDs.
C1_Convergence ==
  (\A s \in PairSites : pending[s] = {}) =>
    /\ fs[1].files = fs[2].files
    /\ Resolved(fs[1].id_lookup) = Resolved(fs[2].id_lookup)

\* both replicas created a file at the same path before seeing the other's
\* Create, and each has since integrated the other's Create; nothing else
\* has happened
ConcurrentlyCreated ==
  /\ \A s \in PairSites :
       /\ fs[s].last_id = 1 /\ fs[s].last_timestamp = 1
       /\ pending[s] = {}
       /\ DOMAIN fs[s].files = {<<1, 0>>, <<2, 0>>}
       /\ fs[s].files[<<s, 0>>].printed_filename =
            fs[s].files[<<s, 0>>].filename[2][Len(fs[s].files[<<s, 0>>].filename[2])]
  /\ fs[1].files[<<1, 0>>].filename[2] = fs[2].files[<<2, 0>>].filename[2]

\* C2: two replicas with distinct site_ids that start empty, each
\* process_create the same path and then integrate the other's Create, end
\* with the same mapping from on-disk path to FileID.
C2_ConcurrentCreate ==
  ConcurrentlyCreated => DiskMap(fs[1]) = DiskMap(fs[2])

\* ------------------------------------------------------------------------
\* Properties of the local events
\* ------------------------------------------------------------------------

\* C11: process_create(path) on a replica with last_id = n and
\* last_timestamp = t emits Create{state:(t, site_id), id:(site_id, n),
\* filename: path}, leaves last_id = n+1 and last_timestamp = t+1, and
\* inserts files[(site_id, n)] with filename (t, path), empty attributes and
\* printed_filename the name returned by the trie add made with author =
\* local site_id.
C11_ProcessCreate ==
  last.kind = "process_create" =>
    LET n == pre.last_id
        t == pre.last_timestamp
        id == <<pre.site_id, n>>
    IN /\ last.emitted = <<CreateOp(<<t, pre.site_id>>, id, last.path)>>
       /\ post.last_id = n + 1
       /\ post.last_timestamp = t + 1
       /\ id \in DOMAIN post.files
       /\ post.files[id].filename = <<t, last.path>>
       /\ post.files[id].attributes = EmptyMap
       /\ post.files[id].printed_filename =
            add_file(pre.id_lookup, last.path, id, pre.site_id).name

\* a second process_create on a replica whose counters have advanced, at a
\* path that is taken, so that the printed name differs from the terminal
C11_SecondCreate ==
  /\ last.kind = "process_create"
  /\ pre.last_id = 1 /\ pre.last_timestamp > 1
  /\ post.files[<<pre.site_id, 1>>].printed_filename # last.path[Len(last.path)]

\* C12: process_file_move(old, new), for `old` resolving to FileID f and
\* last_timestamp = t: f is kept, files[f].filename is (t, new),
\* files[f].printed_filename is the name returned by re-adding f under `new`
\* with author = f's site_id, `old` no longer resolves to f (read for a move
\* that changes the path), the new on-disk path resolves to f,
\* last_timestamp is t+1, and UpdateMetadata{state:(t, local site_id), id: f,
\* Filename(new)} is emitted.
C12_ProcessFileMove ==
  last.kind = "process_file_move" =>
    LET f == get_id_for(pre.id_lookup, last.path)
        t == pre.last_timestamp
        removed == remove_file(pre.id_lookup, last.path).trie
    IN /\ DOMAIN post.files = DOMAIN pre.files
       /\ post.files[f].filename = <<t, last.new_path>>
       /\ post.files[f].printed_filename = add_file(removed, last.new_path, f, f[1]).name
       /\ last.path # get_local_filename(post.files[f]) =>
            get_id_for(post.id_lookup, last.path) # f
       /\ get_id_for(post.id_lookup, get_local_filename(post.files[f])) = f
       /\ post.last_timestamp = t + 1
       /\ last.emitted = <<FilenameOp(<<t, pre.site_id>>, f, last.new_path)>>

\* the trie nodes at or under `path` that store a FileID
StoredUnder(t, path) == {q \in DOMAIN t : IsPrefix(path, q) /\ t[q] # None}

\* C13: process_remove_folder(path) emits exactly one Remove for each FileID
\* stored in the trie at or under `path` and no others, removes exactly
\* those FileIDs from files, makes every path under `path` resolve to None,
\* and leaves every file outside the folder in files and resolvable in the
\* trie as before.
C13_ProcessRemoveFolder ==
  last.kind = "process_remove_folder" =>
    LET inside == StoredUnder(pre.id_lookup, last.path)
        ids == {pre.id_lookup[q] : q \in inside}
        outside == StoredUnder(pre.id_lookup, <<>>) \ inside
    IN /\ Range(last.emitted) = {RemoveOp(f) : f \in ids}
       /\ Len(last.emitted) = Cardinality(ids)
       /\ DOMAIN post.files = DOMAIN pre.files \ ids
       /\ StoredUnder(post.id_lookup, last.path) = {}
       /\ \A f \in DOMAIN pre.files \ ids : post.files[f] = pre.files[f]
       /\ \A q \in outside : get_id_for(post.id_lookup, q) = pre.id_lookup[q]

\* ------------------------------------------------------------------------
\* Properties of repeated and ordered integration
\* ------------------------------------------------------------------------

\* this step is an integrate_remote call, on the replica of the previous
\* call, of the operation that call integrated
SameOpAgain ==
  /\ last.kind = "integrate_remote"
  /\ budget' = budget - 1
  /\ last'.kind = "integrate_remote"
  /\ last'.site = last.site
  /\ last'.op = last.op

\* C14: integrating the same Create twice leaves files (printed_filename
\* included) and the paths the trie resolves as they were after the first
\* integration, and the second integration reports no error for the FileID
\* being tracked already.
C14_CreateIdempotent ==
  [][(SameOpAgain /\ last.op.type = "Create") =>
       /\ fs'[last.site].files = fs[last.site].files
       /\ Resolved(fs'[last.site].id_lookup) = Resolved(fs[last.site].id_lookup)
       /\ last'.result.tag # "IDNotFound"]_vars

\* C15: two replicas with different local site_ids that start from the same
\* contents and integrate the same sequence of Creates compute the same
\* printed_filename for every FileID (stated whenever both have integrated
\* the same prefix of the sequence).
C15_NamingDeterminism ==
  Len(pending[1]) = Len(pending[2]) =>
    /\ DOMAIN fs[1].files = DOMAIN fs[2].files
    /\ \A f \in DOMAIN fs[1].files :
         fs[1].files[f].printed_filename = fs[2].files[f].printed_filename

\* both replicas have integrated the whole sequence, and a Create of it
\* collided: a file's printed name is not its terminal component
C15_Collided ==
  /\ pending[1] = <<>> /\ pending[2] = <<>>
  /\ fs[1].site_id # fs[2].site_id
  /\ \E f \in DOMAIN fs[1].files :
       fs[1].files[f].printed_filename # fs[1].files[f].filename[2][Len(fs[1].files[f].filename[2])]

\* ------------------------------------------------------------------------
\* Properties of the snapshot
\* ------------------------------------------------------------------------

\* C16: for every reachable replica state S, expand_from of the output of
\* compress_to on S has the same last_timestamp, last_id and site_id, the
\* same files map, and a trie that resolves the same paths to the same
\* FileIDs as the trie of S.
C16_SnapshotRoundTrip ==
  (last.kind = "new" /\ last.site # 0) =>
    /\ post.last_timestamp = pre.last_timestamp
    /\ post.last_id = pre.last_id
    /\ post.site_id = pre.site_id
    /\ post.files = pre.files
    /\ Resolved(post.id_lookup) = Resolved(pre.id_lookup)

\* ------------------------------------------------------------------------
\* Properties of failures
\* ------------------------------------------------------------------------

\* the last call was integrate_remote of an operation other than Create
\* whose FileID is not a key of files
UnknownFileID ==
  /\ last.kind = "integrate_remote"
  /\ last.op.type \in {"Remove", "Update", "Filename", "Custom"}
  /\ last.op.id \notin DOMAIN pre.files

\* C17: integrate_remote of a Remove, an Update or an UpdateMetadata
\* (Filename or Custom) whose FileID is not a key of files returns
\* IDNotFound(site_id, id), makes no updater call, and leaves files, the
\* trie, last_timestamp and last_id unchanged.
C17_UnknownFileID ==
  UnknownFileID =>
    /\ last.result = IDNotFound(last.op.id)
    /\ last.calls = <<>>
    /\ post.files = pre.files
    /\ post.id_lookup = pre.id_lookup
    /\ post.last_timestamp = pre.last_timestamp
    /\ post.last_id = pre.last_id

\* a Remove of a FileID that is not tracked reaches a replica that tracks
\* other files
C17_RemoveUnknown ==
  /\ UnknownFileID
  /\ last.op.type = "Remove"
  /\ DOMAIN pre.files # {}
  /\ last.result.tag = "IDNotFound"

\* C18: when the updater call made by integrate_remote (create_file,
\* remove_file, move_file) returns an I/O error, integrate_remote returns
\* IOError, the change to files and the trie made before the call is kept,
\* and the snapshot is saved after it; the snapshot is likewise saved after
\* every successful integration and after an IDNotFound failure.
C18_UpdaterFailure ==
  last.kind = "integrate_remote" =>
    LET o == last.op
    IN /\ store[last.site] = save(post)
       /\ ~last.io_ok =>
            /\ last.result = IOError
            /\ last.calls # <<>>
            /\ o.type = "Create" =>
                 /\ o.id \in DOMAIN post.files
                 /\ post.files[o.id].filename = <<o.state[1], o.filename>>
                 /\ NodesStoring(post.id_lookup, o.id) # NodesStoring(pre.id_lookup, o.id)
            /\ o.type = "Remove" =>
                 /\ o.id \in DOMAIN pre.files
                 /\ o.id \notin DOMAIN post.files
            /\ o.type = "Filename" =>
                 /\ post.files[o.id].filename = <<o.state[1], o.filename>>
                 /\ post.files[o.id].printed_filename =
                      add_file(remove_file(pre.id_lookup, get_local_filename(pre.files[o.id])).trie,
                               o.filename, o.id, o.state[2]).name

\* create_file failed for a Create that was integrated
C18_CreateFailed ==
  /\ IntegratedOp("Create")
  /\ ~last.io_ok
  /\ last.op.id \notin DOMAIN pre.files
  /\ last.op.id \in DOMAIN post.files

\* ------------------------------------------------------------------------
\* Properties of the counters
\* ------------------------------------------------------------------------

\* C19: on one replica the timestamps carried by the operations that
\* process_create and process_file_move emit one after the other are
\* strictly increasing, and in every reachable state last_timestamp is
\* greater than the timestamp of every State the replica has produced.
C19_MonotonicTimestamps ==
  [][\A s \in DOMAIN fs :
       /\ \A u \in issued'[s] : fs'[s].last_timestamp > u
       /\ (last'.site = s /\ last'.kind \in {"process_create", "process_file_move"}
           /\ budget' = budget - 1) =>
            \A u \in issued[s] : last'.emitted[1].state[1] > u]_vars

\* a replica has emitted a Create and then the UpdateMetadata of a move
C19_TwoEmitted ==
  /\ last.kind = "process_file_move"
  /\ issued[last.site] = {0, 1}
  /\ last.emitted[1].state[1] = 1
  /\ post.last_timestamp = 2

\* ---- C20 ----
\* C20: on every replica, whatever calls it has served (process_* calls,
\* integrate_remote, integrate_remote_file_list, a restart from its
\* snapshot), the FileID the next process_create allocates carries the
\* replica's site_id, is none of the FileIDs the replica put into a Create
\* operation before, and is not a key of files.
C20_FileIDUniqueness ==
  \A s \in DOMAIN fs : \A path \in Paths :
    LET id == process_create(fs[s], path).emitted[1].id
    IN /\ id[1] = s
       /\ id \notin allocated[s]
       /\ id \notin DOMAIN fs[s].files

\* a manifest has brought back a file this replica created and no longer
\* tracked
C20_ListedOwnFile ==
  /\ last.kind = "integrate_remote_file_list"
  /\ \E id \in allocated[last.site] : id \in DOMAIN post.files /\ id \notin DOMAIN pre.files
  /\ post.last_id = Cardinality(allocated[last.site])

\* ---- C21 ----
\* the last call made updater.create_file and later updater.update_file on path
CreatedThenUpdated(path) ==
  \E i, j \in DOMAIN last.calls :
    /\ i < j
    /\ last.calls[i] = create_file_call(path)
    /\ last.calls[j] = update_file_call(path)

\* C21: when integrate_remote_file_list returns, every FileID that was a key
\* of files at entry and is not a key of the manifest is gone from files and
\* from the trie and updater.remove_file was called on its on-disk path;
\* every key of the manifest that was not a key of files is now a key of
\* files and stored in the trie, with updater.create_file and then
\* updater.update_file called on its on-disk path; the keys of files are the
\* keys of the manifest.
C21_ReconcilerPresence ==
  last.kind = "integrate_remote_file_list" =>
    /\ \A id \in DOMAIN pre.files \ DOMAIN last.file_list :
         /\ id \notin DOMAIN post.files
         /\ NodesStoring(post.id_lookup, id) = {}
         /\ remove_file_call(get_local_filename(pre.files[id])) \in Range(last.calls)
    /\ \A id \in DOMAIN last.file_list \ DOMAIN pre.files :
         /\ id \in DOMAIN post.files
         /\ NodesStoring(post.id_lookup, id) # {}
         /\ CreatedThenUpdated(get_local_filename(post.files[id]))
    /\ DOMAIN post.files = DOMAIN last.file_list

\* ---- C22 ----
\* C22: in every sequence of add_file, remove_file and remove_folder calls,
\* the name each add_file(path, id, author) returns is the name the described
\* trie gives on the same sequence: the last component of path if no FileID
\* is stored at path, otherwise that component with "(site <author>)"
\* appended until a sibling that stores no FileID is reached; the FileID is
\* stored under the parent components of path as they were given.
C22_AddNaming ==
  last.kind = "add_file" =>
    /\ last.result = ref_add(pre.ref, last.path, last.id, last.author).name
    /\ \A q \in NodesStoring(trie, last.id) \ NodesStoring(pre.trie, last.id) :
         IsPrefix(SubSeq(last.path, 1, Len(last.path) - 1), q)

\* ---- C23 ----
\* C23: remove_file(path), for a path whose node stores FileID f, returns f;
\* afterwards get(path) is None, every node that is gone stored no FileID
\* (path's own apart) and has lost all its children, get(q) is unchanged for
\* every other path q, a proper prefix of path that stores a FileID
\* included, and an add at path returns the terminal component unsuffixed.
C23_RemoveFileFrame ==
  (last.kind = "remove_file" /\ get_id_for(pre.trie, last.path) # None) =>
    /\ last.result = pre.trie[last.path]
    /\ get_id_for(trie, last.path) = None
    /\ \A q \in DOMAIN pre.trie \ DOMAIN trie :
         /\ q = last.path \/ pre.trie[q] = None
         /\ children(pre.trie, q) \cap DOMAIN trie = {}
    /\ \A q \in DOMAIN pre.trie \ {last.path} : get_id_for(trie, q) = pre.trie[q]
    /\ \A id \in TrieIDs :
         add_file(trie, last.path, id, id[1]).name = last.path[Len(last.path)]

\* ---- C24 ----
\* C24: remove_folder(path), for a path at which a node exists, returns the
\* FileIDs stored at or under that node (the folder node's own included);
\* afterwards get is None for path and for every path under it, and get(q)
\* is unchanged for every other path q, an ancestor of path that stores a
\* FileID included.
C24_RemoveFolder ==
  (last.kind = "remove_folder" /\ last.path \in DOMAIN pre.trie) =>
    /\ last.ids = {pre.trie[q] : q \in StoredUnder(pre.trie, last.path)}
    /\ \A q \in DOMAIN pre.trie :
         IF IsPrefix(last.path, q)
         THEN get_id_for(trie, q) = None
         ELSE get_id_for(trie, q) = pre.trie[q]

\* ---- C25 ----
\* C25: remove_file(path) for a path with a missing intermediate node, a
\* missing terminal node or a terminal node without FileID returns None and
\* leaves the trie as it was; remove_folder for a path at which no node
\* exists returns an empty list and leaves the trie as it was.
C25_RemoveMissing ==
  /\ (last.kind = "remove_file" /\ get_id_for(pre.trie, last.path) = None) =>
       last.result = None /\ trie = pre.trie
  /\ (last.kind = "remove_folder" /\ last.path \notin DOMAIN pre.trie) =>
       last.ids = {} /\ trie = pre.trie

\* remove_file has been called on a node that exists, stores no FileID and
\* has a child that stores one
C25_TerminalWithoutFileID ==
  /\ last.kind = "remove_file"
  /\ last.path \in DOMAIN pre.trie
  /\ last.path # <<>>
  /\ pre.trie[last.path] = None
  /\ StoredUnder(pre.trie, last.path) # {}

\* ---- C26 ----
\* C26: integrate_remote, for every kind of operation and every outcome
\* (applied, dropped by last-writer-wins, IDNotFound, IOError), leaves
\* last_timestamp and last_id as they were, also when the time_stamp of the
\* operation is at or above last_timestamp.
C26_NoClockAdvance ==
  last.kind = "integrate_remote" =>
    /\ post.last_timestamp = pre.last_timestamp
    /\ post.last_id = pre.last_id

\* a rename stamped above the local clock has been applied
C26_NewerRenameApplied ==
  /\ IntegratedOp("Filename")
  /\ last.op.state[1] > pre.last_timestamp
  /\ last.result = Ok
  /\ post.files # pre.files

\* ---- C27 ----
\* C27: every process_file_move on a tracked file gives the file's filename
\* a time_stamp strictly greater than the one it held when the call was
\* entered (so the stored time_stamp never decreases, and a peer that holds
\* the earlier metadata does not find the emitted UpdateMetadata older).
C27_LocalRenameNewer ==
  last.kind = "process_file_move" =>
    LET id == last.emitted[1].id
    IN /\ last.emitted[1].state[1] > pre.files[id].filename[1]
       /\ post.files[id].filename[1] > pre.files[id].filename[1]

\* ---- C28 ----
\* the FileSet of a peer with site_id `peer` whose files and trie are those
\* of r
PeerHolding(r, peer) == [r EXCEPT !.site_id = peer]

\* C28: when a replica has performed process_file_move(old, new) on FileID
\* f and a peer whose files and trie are the replica's before the move
\* integrates the emitted UpdateMetadata, the peer's printed_filename of f
\* is the replica's, also when `new` collides with a tracked file and when
\* the replica is not the site that created f.
C28_RenameAgreement ==
  last.kind = "process_file_move" =>
    \A peer \in Sites \ {last.site} :
      LET f == last.emitted[1].id
          out == integrate_remote(PeerHolding(pre, peer), last.emitted[1], TRUE)
      IN out.fs.files[f].printed_filename = post.files[f].printed_filename

\* ---- C29 ----
\* C29: every Create operation in the list integrate_remote_file_list
\* returns (made for a file under the base path whose path was not tracked)
\* carries a FileID that is a key of files and stored in the trie when the
\* call returns, and updater.remove_file was not called on that file
\* during the call.
C29_CreatedStayTracked ==
  last.kind = "integrate_remote_file_list" =>
    \A i \in DOMAIN last.emitted :
      last.emitted[i].type = "Create" =>
        /\ last.emitted[i].id \in DOMAIN post.files
        /\ NodesStoring(post.id_lookup, last.emitted[i].id) # {}
        /\ remove_file_call(last.emitted[i].filename) \notin Range(last.calls)
====
